---- MODULE Spec2Model ----
(***************************************************************************)
(* The headline pipeline of Synapse: the HeadlineClusterer object           *)
(* (src/clustering.py) and the pickle file it saves to and loads from, the *)
(* GeminiSummarizer (src/summarizer.py) with its mock fallback, and the    *)
(* daily run of the NewsScheduler (src/scheduler.py) over both.            *)
(*                                                                         *)
(* A headline text is a number in Texts.  An embedding is one integer (a   *)
(* point on a line instead of a 384-dimensional vector); a centroid is a   *)
(* fraction <<numerator, denominator>>, so that means and distances are    *)
(* exact.  Python's None is the empty tuple and a value v that may be None *)
(* is the one-element tuple <<v>>.                                         *)
(***************************************************************************)
EXTENDS Integers, Sequences, FiniteSets, TLC

\* ---------------------------------------------------------------- bounds

\* The longest batch of headlines handed to cluster_headlines.
MaxLen == 3
\* The longest batch in the specification with save_model and load_model.
PersistMaxLen == 2
\* The largest n_clusters a HeadlineClusterer is constructed with.
MaxK == 2

\* The headline texts: the first two of test_headlines.
Texts == {1, 2}
Batches == UNION {[1..n -> Texts] : n \in 0..MaxLen}
PersistBatches == {h \in Batches : Len(h) <= PersistMaxLen}
\* The most scrape_headlines is asked for.
MaxHeadlines == 4
\* The most articles of one page that pass the filter.
MaxArticles == 2

\* The batches of the runs that follow the file and the pipeline step by
\* step.
StoreBatches == {<<>>, <<1>>, <<1, 2>>}

\* ------------------------------------------------------ program constants

\* KMeans(n_clusters=n_clusters, random_state=42, n_init=10)
RANDOM_STATE == 42
N_INIT == 10
\* KMeans' default max_iter
MAX_ITER == 300
EMBEDDING_MODEL == "sentence-transformers/all-MiniLM-L6-v2"

None == <<>>
Some(v) == <<v>>

\* A function on 1..n written out as the tuple it is.
Array(f) == f \o <<>>

Abs(x) == IF x < 0 THEN -x ELSE x
Min(a, b) == IF a < b THEN a ELSE b

RECURSIVE Fact(_)
Fact(n) == IF n <= 1 THEN 1 ELSE n * Fact(n - 1)

RECURSIVE SumOver(_, _)
SumOver(X, S) ==
    IF S = {} THEN 0
    ELSE LET i == CHOOSE i \in S : TRUE IN X[i] + SumOver(X, S \ {i})

\* ------------------------------------------------------------ embeddings

\* SentenceTransformer.encode on one text: a pure function of the text.
Encode(t) == t * (t - 1)

\* embedding_model.encode(headlines): one embedding per headline, in order.
EncodeAll(headlines) == Array([i \in 1..Len(headlines) |-> Encode(headlines[i])])

\* --------------------------------------------------------------- K-means

\* |x - c| * denominator(c), for a point x and a centroid c.
DistNum(x, c) == Abs(x * c[2] - c[1])

\* x is strictly closer to centroid c than to centroid d.
Closer(x, c, d) == DistNum(x, c) * d[2] < DistNum(x, d) * c[2]

\* The nearest centroid of x, the lowest-numbered one among equals (argmin).
Nearest(x, centers) ==
    CHOOSE j \in 1..Len(centers) :
        \A m \in 1..Len(centers) :
            /\ m < j => Closer(x, centers[j], centers[m])
            /\ m > j => ~Closer(x, centers[m], centers[j])

\* The E-step: the 0-based label of every point.
Assign(X, centers) == Array([i \in 1..Len(X) |-> Nearest(X[i], centers) - 1])

Members(labels, j) == {i \in 1..Len(labels) : labels[i] = j}

\* Point i is farther from its own centroid than point m (lower index first
\* among equals): the order in which empty clusters take points over.
Farther(X, labels, centers, i, m) ==
    LET ci == centers[labels[i] + 1]
        cm == centers[labels[m] + 1]
        di == DistNum(X[i], ci) * cm[2]
        dm == DistNum(X[m], cm) * ci[2]
    IN  di > dm \/ (di = dm /\ i < m)

FarRank(X, labels, centers, i) ==
    Cardinality({m \in 1..Len(X) : m # i /\ Farther(X, labels, centers, m, i)}) + 1

\* Empty clusters are relocated: the r-th empty cluster takes the r-th
\* farthest point away from the cluster it was assigned to.
Relocated(X, labels, centers) ==
    LET k == Len(centers)
        empty == {j \in 0..(k - 1) : Members(labels, j) = {}}
        nth(j) == Cardinality({e \in empty : e < j}) + 1
        taker(i) == {j \in empty : nth(j) = FarRank(X, labels, centers, i)}
    IN  Array([i \in 1..Len(X) |->
            IF taker(i) = {} THEN labels[i] ELSE CHOOSE j \in taker(i) : TRUE])

\* The M-step: every centroid becomes the mean of its points; a cluster
\* left without points keeps its centroid.
UpdateCenters(X, labels, centers) ==
    LET moved == Relocated(X, labels, centers)
    IN  Array([j \in 1..Len(centers) |->
            LET S == Members(moved, j - 1)
            IN  IF S = {} THEN centers[j]
                ELSE <<SumOver(X, S), Cardinality(S)>>])

\* One run of Lloyd's iteration from the given centroids.
RECURSIVE Lloyd(_, _, _, _)
Lloyd(X, centers, labels_old, it) ==
    LET labels == Assign(X, centers)
        centers_new == UpdateCenters(X, labels, centers)
    IN  IF labels = labels_old
        THEN [labels |-> labels, centers |-> centers_new]
        ELSE IF it >= MAX_ITER
        THEN [labels |-> Assign(X, centers_new), centers |-> centers_new]
        ELSE Lloyd(X, centers_new, labels, it + 1)

\* The seeded initialisation: the points chosen as the first centroids. The
\* first is fixed by the seed, each next one is the point farthest from
\* those chosen so far (lowest index among equals).
RECURSIVE PlusPlus(_, _, _)
PlusPlus(X, k, chosen) ==
    IF Len(chosen) >= k THEN chosen
    ELSE LET d(i) == CHOOSE v \in {Abs(X[i] - X[chosen[c]]) : c \in 1..Len(chosen)} :
                         \A c \in 1..Len(chosen) : v <= Abs(X[i] - X[chosen[c]])
             next == CHOOSE i \in 1..Len(X) :
                         \A m \in 1..Len(X) : d(m) < d(i) \/ (d(m) = d(i) /\ i <= m)
         IN  PlusPlus(X, k, Append(chosen, next))

InitCenters(X, k, seed) ==
    LET chosen == PlusPlus(X, k, <<(seed % Len(X)) + 1>>)
    IN  Array([j \in 1..k |-> <<X[chosen[j]], 1>>])

KMeansRun(X, k, seed) ==
    Lloyd(X, InitCenters(X, k, seed), Array([i \in 1..Len(X) |-> -1]), 1)

\* Fact(n) times the sum of squared distances of the points to the mean of
\* their cluster: an integer that orders runs as their inertia does.
Inertia(X, labels, k) ==
    LET F == Fact(Len(X))
        part(j) == LET S == Members(labels, j)
                       s == SumOver(X, S)
                   IN  IF S = {} THEN 0
                       ELSE F * SumOver([i \in 1..Len(X) |-> X[i] * X[i]], S)
                            - s * s * (F \div Cardinality(S))
    IN  SumOver([j \in 1..k |-> part(j - 1)], 1..k)

\* fit_predict raises ValueError when there are fewer samples than clusters
\* (and on an empty array).
FitRaises(X, k) == Len(X) < k \/ Len(X) = 0

\* KMeans.fit: n_init seeded runs, the first of the runs of least inertia.
\* A run depends on its seed through the first centroid only, so the runs
\* are computed once for each first centroid.
KMeansFit(X, k) ==
    LET byFirst == Array([f \in 1..Len(X) |-> KMeansRun(X, k, f - 1)])
        cost == Array([f \in 1..Len(X) |-> Inertia(X, byFirst[f].labels, k)])
        first(r) == ((RANDOM_STATE + r) % Len(X)) + 1
        best == CHOOSE r \in 0..(N_INIT - 1) :
                    \A m \in 0..(N_INIT - 1) :
                        \/ cost[first(m)] > cost[first(r)]
                        \/ (cost[first(m)] = cost[first(r)] /\ r <= m)
    IN  byFirst[first(best)]

\* self.kmeans.fit_predict(self.embeddings)
FitPredict(X, k) == KMeansFit(X, k)

\* ------------------------------------------------------------------ state

VARIABLES
    n_clusters,         \* self.n_clusters
    model_name,         \* self.model_name
    kmeans,             \* self.kmeans: its n_clusters and, once fitted, cluster_centers_
    embeddings,         \* self.embeddings: None or the array of embeddings
    cluster_labels,     \* self.cluster_labels: None or the array of labels
    file,               \* data/clustering_model.pkl: None (no file) or its content
    saved,              \* the five fields as they were when save_model last wrote them
    op,                 \* the method called last
    outcome,            \* how it ended: "returned", "raised", "True" or "False"
    headlines,          \* the caller's headline_texts: the last batch clustered
    cluster_results,    \* the caller's cluster_results
    cluster_summaries,  \* the caller's cluster_summaries
    run_k,              \* n_clusters of the run cluster_summaries is of; 0: of none
    use_mock,           \* GeminiSummarizer.use_mock
    hash_seed,          \* the seed of the process's string hashes (PYTHONHASHSEED)
    result,             \* None or what the summarizer method called last returned
    summaries,          \* run_daily_pipeline's summaries
    phases,             \* the steps of the clustering core the last run_daily_pipeline took
    log,                \* the last message run_daily_pipeline logged, with its exception
    written,            \* the files the last run_daily_pipeline wrote to, in order
    executive_file,     \* data/executive_summary_<date>.json: None or its content
    shown,              \* what display_executive_summary wrote to the page
    scraped,            \* what the last scrape_headlines call returned
    max_headlines       \* the max_headlines of that call

fields == <<kmeans, embeddings, cluster_labels, model_name, n_clusters>>

caller == <<headlines, cluster_results, cluster_summaries, run_k>>

summarizer == <<use_mock, hash_seed, result>>

run == <<summaries, phases, log, written, executive_file, shown>>

scraper == <<scraped, max_headlines>>

vars == <<fields, file, saved, op, outcome, caller, summarizer, run, scraper>>

\* --------------------------------------------------------------- __init__

\* HeadlineClusterer(n_clusters=k): a new object. The file and what the
\* caller holds from earlier runs are left as they are.
Construct(k) ==
    /\ n_clusters' = k
    /\ model_name' = EMBEDDING_MODEL
    /\ kmeans' = [n_clusters |-> k, cluster_centers_ |-> None]
    /\ embeddings' = None
    /\ cluster_labels' = None
    /\ op' = "__init__"
    /\ outcome' = "returned"
    /\ UNCHANGED <<summarizer, run, scraper, file, saved, caller>>

Init ==
    /\ n_clusters \in 1..MaxK
    /\ model_name = EMBEDDING_MODEL
    /\ kmeans = [n_clusters |-> n_clusters, cluster_centers_ |-> None]
    /\ embeddings = None
    /\ cluster_labels = None
    /\ file = None
    /\ saved = None
    /\ op = "__init__"
    /\ outcome = "returned"
    /\ headlines = <<>>
    /\ cluster_results = <<>>
    /\ cluster_summaries = <<>>
    /\ run_k = 0
    /\ use_mock = FALSE
    /\ hash_seed = 0
    /\ result = None
    /\ summaries = <<>>
    /\ phases = <<>>
    /\ log = <<>>
    /\ written = <<>>
    /\ executive_file = None
    /\ shown = <<>>
    /\ scraped = <<>>
    /\ max_headlines = 0

\* ------------------------------------------------------ cluster_headlines

\* The array the fit of a cluster_headlines(h) call runs on: computed from h
\* only while self.embeddings is None.
FitInput(emb, h) == IF emb = None THEN EncodeAll(h) ELSE emb[1]

\* enumerate(zip(headlines, self.cluster_labels)): as long as the shorter.
ClusterResults(h, labels) ==
    Array([i \in 1..Min(Len(h), Len(labels)) |->
        [headline |-> h[i], cluster_id |-> labels[i], embedding_index |-> i - 1]])

\* What a cluster_headlines(h) call does once the array X is in
\* self.embeddings; fit is what fit_predict returns when it does not raise.
FitAndZip(h, X, k, fit) ==
    /\ embeddings' = Some(X)
    /\ op' = "cluster_headlines"
    /\ headlines' = h
    /\ cluster_summaries' = <<>>
    /\ run_k' = 0
    /\ IF FitRaises(X, k)
       THEN /\ outcome' = "raised"
            /\ cluster_results' = <<>>
            /\ UNCHANGED <<kmeans, cluster_labels>>
       ELSE /\ outcome' = "returned"
            /\ cluster_labels' = Some(fit[1].labels)
            /\ kmeans' = [kmeans EXCEPT !.cluster_centers_ = Some(fit[1].centers)]
            /\ cluster_results' = ClusterResults(h, fit[1].labels)
    /\ UNCHANGED <<summarizer, run, scraper, n_clusters, model_name, file, saved>>

\* fit_predict(X), or None where it raises.
TryFit(X, k) == IF FitRaises(X, k) THEN None ELSE Some(FitPredict(X, k))

\* cluster_headlines(h), for a batch h of the set B: if self.embeddings is
\* None the batch is encoded, and the fit runs on self.embeddings.
ClusterHeadlines(B) ==
    \/ /\ embeddings = None
       /\ \E h \in B :
              \E fit \in {TryFit(FitInput(embeddings, h), kmeans.n_clusters)} :
                  FitAndZip(h, FitInput(embeddings, h), kmeans.n_clusters, fit)
    \/ /\ embeddings # None
       /\ \E fit \in {TryFit(FitInput(embeddings, <<>>), kmeans.n_clusters)} :
              \E h \in B :
                  FitAndZip(h, FitInput(embeddings, h), kmeans.n_clusters, fit)

\* -------------------------------------------------- get_cluster_summaries

\* Mutant: the items of the cluster taken from the last to the first.
InClusterReversed(results, c) ==
    LET items == SelectSeq(results, LAMBDA item : item.cluster_id = c)
    IN  [i \in 1..Len(items) |-> items[Len(items) + 1 - i]]

\* The items of cluster_results with the given cluster_id, in list order.
InCluster(results, c) == SelectSeq(results, LAMBDA item : item.cluster_id = c)

\* np.argmin: the first position of the least value.
ArgMin(distances) ==
    CHOOSE p \in 1..Len(distances) :
        \A q \in 1..Len(distances) :
            /\ q < p => distances[q] > distances[p]
            /\ q > p => distances[q] >= distances[p]

\* Mutant: the position in the cluster taken for the index in the batch.
RepresentativePosition(cluster_indices, distances) == ArgMin(distances) - 1

\* representative_idx = cluster_indices[np.argmin(distances)]
RepresentativeIdx(cluster_indices, distances) == cluster_indices[ArgMin(distances)]

\* if cluster_headlines:
Emitted(cluster_headlines) == cluster_headlines # <<>>

\* Mutant: a size that is off by one.
SizeOffByOne(cluster_headlines) == Len(cluster_headlines) - 1

\* 'size': len(cluster_headlines)
Size(cluster_headlines) == Len(cluster_headlines)

\* The entry of one cluster_id.
Summary(results, emb, centers, c) ==
    LET items == InCluster(results, c)
        cluster_headlines == [i \in 1..Len(items) |-> items[i].headline]
        cluster_indices == [i \in 1..Len(items) |-> items[i].embedding_index]
        centroid == centers[c + 1]
        distances == [i \in 1..Len(items) |->
                         DistNum(emb[cluster_indices[i] + 1], centroid)]
        representative_idx == RepresentativeIdx(cluster_indices, distances)
    IN  [cluster_id |-> c,
         representative_headline |-> results[representative_idx + 1].headline,
         headlines |-> cluster_headlines,
         size |-> Size(cluster_headlines)]

\* Mutant: the loop runs over the ids from the highest down.
RECURSIVE SummariesDescending(_, _, _, _, _)
SummariesDescending(results, emb, centers, c, k) ==
    IF c >= k THEN <<>>
    ELSE LET items == InCluster(results, c)
             rest == SummariesDescending(results, emb, centers, c + 1, k)
         IN  IF Emitted([i \in 1..Len(items) |-> items[i].headline])
             THEN rest \o <<Summary(results, emb, centers, c)>>
             ELSE rest

\* for cluster_id in range(self.n_clusters): the entries of the ids c..k-1,
\* in the order the dictionary receives them.
RECURSIVE Summaries(_, _, _, _, _)
Summaries(results, emb, centers, c, k) ==
    IF c >= k THEN <<>>
    ELSE LET items == InCluster(results, c)
             rest == Summaries(results, emb, centers, c + 1, k)
         IN  IF Emitted([i \in 1..Len(items) |-> items[i].headline])
             THEN <<Summary(results, emb, centers, c)>> \o rest
             ELSE rest

\* What get_cluster_summaries returns for cluster_results.
ClusterSummaries(results, emb, km, k) ==
    Summaries(results, emb[1], km.cluster_centers_[1], 0, k)

\* Called, as by every caller, on what cluster_headlines has just returned.
GetClusterSummaries ==
    /\ op = "cluster_headlines"
    /\ outcome = "returned"
    /\ cluster_summaries' =
           ClusterSummaries(cluster_results, embeddings, kmeans, n_clusters)
    /\ run_k' = n_clusters
    /\ op' = "get_cluster_summaries"
    /\ outcome' = "returned"
    /\ UNCHANGED <<summarizer, run, scraper, fields, file, saved, headlines, cluster_results>>

\* ------------------------------------------------- save_model, load_model

\* The opcode that ends a pickle stream.
STOP == <<".">>

\* Mutant: the embeddings and the labels written under each other's key.
PickleSwapped(km, emb, labels, name, k) ==
    << <<"kmeans", km>>, <<"embeddings", labels>>, <<"cluster_labels", emb>>,
       <<"model_name", name>>, <<"n_clusters", k>>, STOP >>

\* pickle.dump(model_data): the dictionary's items, in order, and STOP.
Pickle(km, emb, labels, name, k) ==
    << <<"kmeans", km>>, <<"embeddings", emb>>, <<"cluster_labels", labels>>,
       <<"model_name", name>>, <<"n_clusters", k>>, STOP >>

\* pickle.load(f): the dictionary of a stream that ends with STOP; None
\* where the stream is empty or cut short and pickle.load raises.
Unpickle(bytes) ==
    IF bytes # <<>> /\ bytes[Len(bytes)] = STOP
    THEN Some(SubSeq(bytes, 1, Len(bytes) - 1))
    ELSE None

Has(data, key) == \E i \in 1..Len(data) : data[i][1] = key

\* model_data[key]
Item(data, key) == data[CHOOSE i \in 1..Len(data) : data[i][1] = key][2]

\* save_model() where the write succeeds.
SaveModel ==
    /\ file' = Some(Pickle(kmeans, embeddings, cluster_labels, model_name, n_clusters))
    /\ saved' = Some(fields)
    /\ op' = "save_model"
    /\ outcome' = "returned"
    /\ UNCHANGED <<summarizer, run, scraper, fields, caller>>

\* The keys load_model reads, in the order of its assignments.
LoadKeys == <<"kmeans", "embeddings", "cluster_labels", "model_name", "n_clusters">>

\* The number of assignments load_model makes before a key is missing.
Assigned(data) ==
    IF \A i \in 1..Len(LoadKeys) : Has(data, LoadKeys[i]) THEN Len(LoadKeys)
    ELSE (CHOOSE i \in 1..Len(LoadKeys) :
             /\ ~Has(data, LoadKeys[i])
             /\ \A m \in 1..(i - 1) : Has(data, LoadKeys[m])) - 1

\* The exception the try block of load_model ends with, "" for none.
LoadError(f) ==
    IF f = None THEN "FileNotFoundError"
    ELSE IF Unpickle(f[1]) = None THEN "UnpicklingError"
    ELSE IF Assigned(Unpickle(f[1])[1]) < Len(LoadKeys) THEN "KeyError"
    ELSE ""

\* Mutant: every exception is caught.
CaughtAny(error) == error # ""

\* except FileNotFoundError:
Caught(error) == error = "FileNotFoundError"

LoadModel ==
    /\ op' = "load_model"
    /\ LET error == LoadError(file)
           n == IF error \in {"FileNotFoundError", "UnpicklingError"} THEN 0
                ELSE Assigned(Unpickle(file[1])[1])
           model_data == IF n = 0 THEN <<>> ELSE Unpickle(file[1])[1]
       IN  /\ kmeans' = IF n >= 1 THEN Item(model_data, "kmeans") ELSE kmeans
           /\ embeddings' =
                  IF n >= 2 THEN Item(model_data, "embeddings") ELSE embeddings
           /\ cluster_labels' =
                  IF n >= 3 THEN Item(model_data, "cluster_labels")
                  ELSE cluster_labels
           /\ model_name' =
                  IF n >= 4 THEN Item(model_data, "model_name") ELSE model_name
           /\ n_clusters' =
                  IF n >= 5 THEN Item(model_data, "n_clusters") ELSE n_clusters
           /\ outcome' = IF error = "" THEN "True"
                         ELSE IF Caught(error) THEN "False"
                         ELSE "raised"
    /\ UNCHANGED <<summarizer, run, scraper, file, saved, caller>>

\* with open(filepath, 'wb') as f: the file is cut to no bytes before
\* pickle.dump writes to it.
SaveOpen ==
    /\ outcome # "writing"
    /\ file' = Some(<<>>)
    /\ saved' = None
    /\ op' = "save_model"
    /\ outcome' = "writing"
    /\ UNCHANGED <<summarizer, run, scraper, fields, caller>>

\* pickle.dump(model_data, f) writes the whole stream and the file is closed.
SaveDump ==
    /\ op = "save_model"
    /\ outcome = "writing"
    /\ file' = Some(Pickle(kmeans, embeddings, cluster_labels, model_name, n_clusters))
    /\ saved' = Some(fields)
    /\ outcome' = "returned"
    /\ UNCHANGED <<summarizer, run, scraper, op, fields, caller>>

\* pickle.dump raises (an OSError of the write) after n items; what was
\* written stays in the file.
SaveFails(n) ==
    /\ op = "save_model"
    /\ outcome = "writing"
    /\ file' = Some(SubSeq(Pickle(kmeans, embeddings, cluster_labels, model_name,
                                  n_clusters), 1, n))
    /\ outcome' = "raised"
    /\ UNCHANGED <<summarizer, run, scraper, op, saved, fields, caller>>

\* The stream without the item of one key.
Without(bytes, key) == SelectSeq(bytes, LAMBDA item : item[1] # key)

\* The file at filepath is one that save_model did not write: the pickle of
\* a dictionary of an unfitted model of k clusters that lacks one key.
ForeignFile(k, key) ==
    /\ outcome # "writing"
    /\ file' = Some(Without(Pickle([n_clusters |-> k, cluster_centers_ |-> None],
                                   None, None, EMBEDDING_MODEL, k), key))
    /\ saved' = None
    /\ op' = "file replaced"
    /\ outcome' = "returned"
    /\ UNCHANGED <<summarizer, run, scraper, fields, caller>>

\* ------------------------------------------------------ GoogleNewsScraper

\* len(news_urls)
NUM_URLS == 5

\* len(sample_headlines)
NUM_SAMPLES == 20

\* What the request of one URL ends with: an exception, or a page with a
\* number of articles that pass the filter.
UrlOutcomes ==
    {[ok |-> FALSE, articles |-> 0]}
        \cup {[ok |-> TRUE, articles |-> n] : n \in 0..MaxArticles}

\* The first count headlines of url's page, as they are appended.
Articles(url, count) ==
    [j \in 1..count |-> [headline |-> <<url, j>>, source |-> "Google News"]]

\* for url in news_urls: the list after the URLs from url on. The loops stop
\* as soon as the list has max headlines; a URL whose request raises is
\* passed over.
RECURSIVE ScrapeUrls(_, _, _, _)
ScrapeUrls(pages, url, list, max) ==
    IF url > Len(pages) \/ Len(list) >= max THEN list
    ELSE IF ~pages[url].ok THEN ScrapeUrls(pages, url + 1, list, max)
    ELSE ScrapeUrls(pages, url + 1,
                    list \o Articles(url, Min(pages[url].articles, max - Len(list))),
                    max)

\* _get_sample_financial_headlines(count)
SampleHeadlines(count) ==
    [i \in 1..Min(count, NUM_SAMPLES) |->
        [headline |-> <<0, i>>, source |-> "Sample Financial News"]]

\* Mutant: as many sample headlines as were asked of the scraper.
SampleCountFull(max, n) == max

\* The number of sample headlines asked for: max_headlines - len(headlines).
SampleCount(max, n) == max - n

\* scrape_headlines(max_headlines), without the timestamps.
ScrapeHeadlinesRet(max, pages) ==
    LET list == ScrapeUrls(pages, 1, <<>>, max)
    IN  Array(IF Len(list) < max \div 2
              THEN list \o SampleHeadlines(SampleCount(max, Len(list)))
              ELSE list)

ScrapeHeadlines(max, pages) ==
    /\ scraped' = ScrapeHeadlinesRet(max, pages)
    /\ max_headlines' = max
    /\ op' = "scrape_headlines"
    /\ outcome' = "returned"
    /\ UNCHANGED <<summarizer, run, fields, file, saved, caller>>

\* ------------------------------------------------------- GeminiSummarizer

\* What the health check's requests.post ends with: a status code or an
\* exception.
Responses == {"200", "403", "ConnectionError"}

\* What a later API call ends with: a text, one that is JSON and one that
\* is not, or an exception.
ApiTexts == {"json", "prose"}
ApiOutcomes == ApiTexts \cup {"fails"}

\* The string-hash seeds a process can start with.
HashSeeds == {0, 1}

\* _test_api_access: the use_mock it leaves.
TestApiAccess(response) == response # "200"

\* The names of the company list found in a headline, in list order.
CompaniesOf(t) == IF t = 1 THEN <<"Apple">> ELSE <<"Tesla">>

\* The sectors appended for a headline.
SectorsOf(t) == IF t = 1 THEN <<>> ELSE <<"Financial Services">>

\* The themes appended for a headline.
ThemesOf(t) == IF t = 1 THEN <<"Market Movements">> ELSE <<"Earnings Reports">>

\* The lists appended one after another.
RECURSIVE Flatten(_)
Flatten(lists) ==
    IF lists = <<>> THEN <<>> ELSE Head(lists) \o Flatten(Tail(lists))

SetOf(list) == {list[i] : i \in 1..Len(list)}

\* The strings the mock summary can name, in a fixed order.
Words == <<"Apple", "Tesla", "Financial Services", "Market Movements",
           "Earnings Reports">>

Rank(w) == CHOOSE i \in 1..Len(Words) : Words[i] = w

\* list(set(...)): the order in which a set of strings is iterated follows
\* the strings' hashes, which differ from process to process.
RECURSIVE ListOfSet(_, _)
ListOfSet(S, seed) ==
    IF S = {} THEN <<>>
    ELSE LET w == CHOOSE x \in S : \A y \in S :
                      IF seed = 0 THEN Rank(x) <= Rank(y) ELSE Rank(x) >= Rank(y)
         IN  <<w>> \o ListOfSet(S \ {w}, seed)

\* list(set(names))[:limit]
Distinct(list, limit, seed) ==
    LET all == ListOfSet(SetOf(list), seed)
    IN  SubSeq(all, 1, Min(limit, Len(all)))

\* sep.join(list)
RECURSIVE Join(_, _)
Join(list, sep) ==
    IF Len(list) <= 1 THEN list
    ELSE <<list[1], sep>> \o Join(Tail(list), sep)

\* The mock summary of generate_summary, as the pieces of its f-string.
MockSummary(cluster_headlines, seed) ==
    LET companies == Distinct(Flatten([i \in 1..Len(cluster_headlines) |->
                          CompaniesOf(cluster_headlines[i])]), 3, seed)
        sectors == Distinct(Flatten([i \in 1..Len(cluster_headlines) |->
                          SectorsOf(cluster_headlines[i])]), 2, seed)
        themes == Distinct(Flatten([i \in 1..Len(cluster_headlines) |->
                          ThemesOf(cluster_headlines[i])]), 2, seed)
        company_text == IF companies # <<>> THEN Join(companies, ", ")
                        ELSE <<"major companies">>
        sector_text == IF sectors # <<>> THEN Join(sectors, " and ")
                       ELSE <<"technology and financial sectors">>
        theme_text == IF themes # <<>> THEN Join(themes, " and ")
                      ELSE <<"market developments">>
    IN  <<"This cluster focuses on">> \o company_text
        \o <<"covering", ToString(Len(cluster_headlines)), "headlines in the">>
        \o sector_text \o <<"Key themes include">> \o theme_text

\* The dictionary generate_summary returns, without the timestamp.
SummaryDict(cluster_headlines, cluster_id, mock, seed, api) ==
    [cluster_id |-> cluster_id,
     summary |-> IF mock THEN MockSummary(cluster_headlines, seed) ELSE <<api>>,
     headlines_count |-> Len(cluster_headlines),
     headlines |-> cluster_headlines]

\* The except branch of a summarizer method: the API call made has failed
\* and r is what the call of the method on itself returns.
Reentered(r) == [r EXCEPT !.api_calls = @ + 1, !.reentries = @ + 1]

\* Mutant: a failed API call is repeated once before the fallback.
GenerateSummaryRetrying(cluster_headlines, cluster_id, mock, seed, api) ==
    [ret |-> SummaryDict(cluster_headlines, cluster_id,
                         mock \/ api = "fails", seed, api),
     use_mock |-> mock \/ api = "fails",
     api_calls |-> IF mock THEN 0 ELSE IF api = "fails" THEN 2 ELSE 1,
     reentries |-> IF ~mock /\ api = "fails" THEN 2 ELSE 0]

\* generate_summary(cluster_headlines, cluster_id): what it returns, the
\* use_mock it leaves, the API calls it made and the calls it made on
\* itself. api is what the API call of this call ends with.
RECURSIVE GenerateSummaryRet(_, _, _, _, _)
GenerateSummaryRet(cluster_headlines, cluster_id, mock, seed, api) ==
    IF mock \/ api # "fails"
    THEN [ret |-> SummaryDict(cluster_headlines, cluster_id, mock, seed, api),
          use_mock |-> mock,
          api_calls |-> IF mock THEN 0 ELSE 1,
          reentries |-> 0]
    ELSE Reentered(GenerateSummaryRet(cluster_headlines, cluster_id, TRUE, seed, api))

\* generate_all_summaries(cluster_summaries): the summaries of the entries
\* from position i on, and the use_mock the calls leave.
RECURSIVE GenerateAllSummaries(_, _, _, _, _)
GenerateAllSummaries(entries, i, mock, seed, api) ==
    IF i > Len(entries) THEN [ret |-> <<>>, use_mock |-> mock]
    ELSE LET one == GenerateSummaryRet(entries[i].headlines, entries[i].cluster_id,
                                       mock, seed, api)
             rest == GenerateAllSummaries(entries, i + 1, one.use_mock, seed, api)
         IN  [ret |-> <<one.ret>> \o rest.ret, use_mock |-> rest.use_mock]

\* generate_executive_summary(all_summaries)
RECURSIVE GenerateExecutiveRet(_, _, _)
GenerateExecutiveRet(all_summaries, mock, api) ==
    IF mock
    THEN [ret |-> <<"Executive Summary - Financial News Analysis", "Analyzed",
                    ToString(SumOver([i \in 1..Len(all_summaries) |->
                                         all_summaries[i].headlines_count],
                                     1..Len(all_summaries))),
                    "financial headlines across", ToString(Len(all_summaries)),
                    "thematic clusters.">>,
          use_mock |-> TRUE, api_calls |-> 0, reentries |-> 0]
    ELSE IF api # "fails"
    THEN [ret |-> <<api>>, use_mock |-> FALSE, api_calls |-> 1, reentries |-> 0]
    ELSE Reentered(GenerateExecutiveRet(all_summaries, TRUE, api))

\* The headline has one of the positive words (rise, gain, beat, strong ...).
Positive(t) == t = 1

\* The headline has one of the negative words (fall, drop, loss, weak ...).
Negative(t) == FALSE

\* json.loads(response_text): None where it raises.
JsonLoads(text) == IF text = "json" THEN Some([parsed |-> text]) ELSE None

\* analyze_sentiment(headlines)
RECURSIVE AnalyzeSentimentRet(_, _, _)
AnalyzeSentimentRet(h, mock, api) ==
    IF mock
    THEN LET positive_count == Cardinality({i \in 1..Len(h) : Positive(h[i])})
             negative_count == Cardinality({i \in 1..Len(h) : Negative(h[i])})
         IN  [ret |-> [positive |-> positive_count,
                       negative |-> negative_count,
                       neutral |-> Len(h) - positive_count - negative_count,
                       overall_sentiment |->
                           IF positive_count > negative_count THEN "positive"
                           ELSE IF negative_count > positive_count THEN "negative"
                           ELSE "neutral"],
              use_mock |-> TRUE, api_calls |-> 0, reentries |-> 0]
    ELSE IF api # "fails" /\ JsonLoads(api) # None
         THEN [ret |-> JsonLoads(api)[1], use_mock |-> FALSE,
               api_calls |-> 1, reentries |-> 0]
         ELSE Reentered(AnalyzeSentimentRet(h, TRUE, api))

\* GeminiSummarizer(): use_mock is set by the health check.
ConstructSummarizer(response) ==
    /\ use_mock' = TestApiAccess(response)
    /\ result' = None
    /\ op' = "GeminiSummarizer"
    /\ outcome' = "returned"
    /\ UNCHANGED <<hash_seed, run, scraper, fields, file, saved, caller>>

\* The program is started again: a process with string hashes of its own
\* constructs its GeminiSummarizer. What the call before returned is kept
\* by whoever compares the two processes.
NewProcess(seed, response) ==
    /\ hash_seed' = seed
    /\ use_mock' = TestApiAccess(response)
    /\ op' = "process start"
    /\ outcome' = "returned"
    /\ UNCHANGED <<result, run, scraper, fields, file, saved, caller>>

\* A call of a summarizer method that returns r.
SummarizerCall(method, r) ==
    /\ use_mock' = r.use_mock
    /\ result' = Some([method |-> method, ret |-> r.ret,
                        api_calls |-> r.api_calls, reentries |-> r.reentries])
    /\ op' = method
    /\ outcome' = "returned"
    /\ UNCHANGED <<hash_seed, run, scraper, fields, file, saved, caller>>

GenerateSummary(cluster_headlines, cluster_id, api) ==
    SummarizerCall("generate_summary",
        GenerateSummaryRet(cluster_headlines, cluster_id, use_mock, hash_seed, api))

\* generate_executive_summary on the summaries of a run of one cluster.
GenerateExecutiveSummary(cluster_headlines, api) ==
    SummarizerCall("generate_executive_summary",
        GenerateExecutiveRet(
            <<GenerateSummaryRet(cluster_headlines, 0, use_mock, hash_seed, api).ret>>,
            GenerateSummaryRet(cluster_headlines, 0, use_mock, hash_seed, api).use_mock,
            api))

AnalyzeSentiment(h, api) ==
    SummarizerCall("analyze_sentiment", AnalyzeSentimentRet(h, use_mock, api))

\* ------------------------------------------------------ NewsScheduler

\* The save of Step 5 that raises in a run, "" for none.
SaveFailures == {"", "save_headlines", "save_summaries", "save_model"}

\* NewsScheduler(): a new clusterer and a new summarizer.
NewScheduler(k, response) ==
    /\ n_clusters' = k
    /\ model_name' = EMBEDDING_MODEL
    /\ kmeans' = [n_clusters |-> k, cluster_centers_ |-> None]
    /\ embeddings' = None
    /\ cluster_labels' = None
    /\ use_mock' = TestApiAccess(response)
    /\ result' = None
    /\ op' = "NewsScheduler"
    /\ outcome' = "returned"
    /\ UNCHANGED <<hash_seed, run, scraper, file, saved, caller>>

\* The steps of the clustering core a run takes up to the fit.
FitPhases(emb) ==
    IF emb = None THEN <<"Vectorizing", "Partitioning">> ELSE <<"Partitioning">>

\* Mutant: the model is saved before the headlines and the summaries.
WrittenModelFirst(io, executive_summary) ==
    IF io = "save_model" THEN <<"model">>
    ELSE IF io = "save_headlines" THEN <<"model", "headlines">>
    ELSE IF io = "save_summaries" THEN <<"model", "headlines", "summaries">>
    ELSE <<"model", "headlines", "summaries">>
         \o (IF executive_summary # <<>> THEN <<"executive_summary">> ELSE <<>>)

\* The files Step 5 writes to, in order, up to the save that raises; the
\* executive summary is written last, if there is one.
Written(io, executive_summary) ==
    IF io = "save_headlines" THEN <<"headlines">>
    ELSE IF io = "save_summaries" THEN <<"headlines", "summaries">>
    ELSE IF io = "save_model" THEN <<"headlines", "summaries", "model">>
    ELSE <<"headlines", "summaries", "model">>
         \o (IF executive_summary # <<>> THEN <<"executive_summary">> ELSE <<>>)

\* json.dump(value, f) of a string: the file holds a JSON string.
JsonDump(text) == [type |-> "string", value |-> text]

\* json.load(f): the value the file holds.
JsonLoad(content) == content

\* data[key]: None where it raises, as it does on a string.
Subscript(data, key) ==
    IF data.type = "object" /\ key \in DOMAIN data.value
    THEN Some(data.value[key])
    ELSE None

\* display_executive_summary(): the page shows the title of the latest
\* file and then executive_data['executive_summary'].
DisplayExecutiveSummary ==
    /\ op' = "display_executive_summary"
    /\ IF executive_file = None
       THEN /\ outcome' = "returned"
            /\ shown' = <<"No executive summary available.">>
       ELSE LET executive_data == JsonLoad(executive_file[1])
                text == Subscript(executive_data, "executive_summary")
            IN  /\ outcome' = IF text = None THEN "raised" ELSE "returned"
                /\ shown' = <<"Latest Executive Summary">>
                             \o (IF text = None THEN <<>> ELSE <<text[1]>>)
    /\ UNCHANGED <<summarizer, summaries, phases, log, written, executive_file,
                   fields, file, saved, caller, scraper>>

\* What run_daily_pipeline does after a fit that did not raise: summaries,
\* executive summary and the saves of Step 5, of which the one named by io
\* raises.
AfterFit(h, km, entries, all, executive, io) ==
    /\ kmeans' = km
    /\ UNCHANGED shown
    /\ cluster_results' = ClusterResults(h, cluster_labels'[1])
    /\ cluster_summaries' = entries
    /\ run_k' = n_clusters
    /\ summaries' = all.ret
    /\ phases' = FitPhases(embeddings) \o <<"Selecting", "Summarizing">>
    /\ IF all.ret = <<>>
       THEN \* No summaries generated.
            /\ log' = <<"No summaries generated. Pipeline failed.">>
            /\ use_mock' = all.use_mock
            /\ written' = <<>>
            /\ UNCHANGED <<result, file, saved, executive_file>>
       ELSE /\ use_mock' = executive.use_mock
            /\ written' = Written(io, executive.ret)
            /\ executive_file' = IF io = "" /\ executive.ret # <<>>
                                 THEN Some(JsonDump(executive.ret))
                                 ELSE executive_file
            /\ result' = Some([method |-> "generate_executive_summary",
                               ret |-> executive.ret,
                               api_calls |-> executive.api_calls,
                               reentries |-> executive.reentries])
            /\ log' = IF io = "" THEN <<"Daily pipeline completed successfully!">>
                      ELSE <<"Error in daily pipeline", "OSError", io>>
            /\ IF io = ""
               THEN /\ file' = Some(Pickle(km, embeddings', cluster_labels',
                                           model_name, n_clusters))
                    /\ saved' = Some(<<km, embeddings', cluster_labels',
                                       model_name, n_clusters>>)
               ELSE IF io = "save_model"
               THEN /\ file' = Some(<<>>)
                    /\ saved' = None
               ELSE UNCHANGED <<file, saved>>

\* run_daily_pipeline() where scrape_headlines returns the headlines h, fit
\* is what fit_predict returns (None where it raises), the API calls of the
\* run end with api and the save named by io raises. The method has no
\* return statement with a value: on every path it returns None.
RunDailyPipeline(h, fit, api, io) ==
    /\ op' = "run_daily_pipeline"
    /\ outcome' = "None"
    /\ UNCHANGED <<n_clusters, model_name, hash_seed, scraper>>
    /\ IF h = <<>>
       THEN \* if not headlines: return
            /\ log' = <<"No headlines scraped. Pipeline stopped.">>
            /\ phases' = <<>>
            /\ written' = <<>>
            /\ UNCHANGED <<kmeans, embeddings, cluster_labels, use_mock, result,
                           summaries, file, saved, caller, executive_file, shown>>
       ELSE /\ embeddings' = Some(FitInput(embeddings, h))
            /\ headlines' = h
            /\ IF fit = None
               THEN \* fit_predict raises: except Exception
                    /\ log' = <<"Error in daily pipeline", "ValueError">>
                    /\ phases' = FitPhases(embeddings)
                    /\ cluster_results' = <<>>
                    /\ cluster_summaries' = <<>>
                    /\ run_k' = 0
                    /\ written' = <<>>
                    /\ UNCHANGED <<kmeans, cluster_labels, use_mock, result,
                                   summaries, file, saved, executive_file, shown>>
               ELSE /\ cluster_labels' = Some(fit[1].labels)
                    /\ \E km \in {[kmeans EXCEPT !.cluster_centers_ = Some(fit[1].centers)]} :
                       \E entries \in {ClusterSummaries(ClusterResults(h, fit[1].labels),
                                                        embeddings', km, n_clusters)} :
                       \E all \in {GenerateAllSummaries(entries, 1, use_mock,
                                                        hash_seed, api)} :
                       \E executive \in {GenerateExecutiveRet(all.ret, all.use_mock, api)} :
                           AfterFit(h, km, entries, all, executive, io)

\* The runs of run_daily_pipeline on the batches of B: the fit of a run is
\* computed once, on the batch if self.embeddings is None and on
\* self.embeddings otherwise.
RunPipelines(B) ==
    \/ /\ embeddings = None
       /\ \E h \in B :
              \E fit \in {TryFit(FitInput(embeddings, h), kmeans.n_clusters)} :
                  \E api \in ApiOutcomes : \E io \in SaveFailures :
                      RunDailyPipeline(h, fit, api, io)
    \/ /\ embeddings # None
       /\ \E fit \in {TryFit(FitInput(embeddings, <<>>), kmeans.n_clusters)} :
              \E h \in B : \E api \in ApiOutcomes : \E io \in SaveFailures :
                  RunDailyPipeline(h, fit, api, io)

\* --------------------------------------------------------- specifications

\* The runs of a caller: objects are constructed and batches are clustered.
Next ==
    \/ \E k \in 1..MaxK : Construct(k)
    \/ ClusterHeadlines(Batches)
    \/ GetClusterSummaries

Spec == Init /\ [][Next]_vars

\* The same with the model saved and loaded between the calls.
PersistNext ==
    \/ \E k \in 1..MaxK : Construct(k)
    \/ ClusterHeadlines(PersistBatches)
    \/ SaveModel
    \/ LoadModel

PersistSpec == Init /\ [][PersistNext]_vars

\* save_model step by step, with files of other origin, and load_model.
StorageNext ==
    \/ SaveOpen
    \/ SaveDump
    \/ \E n \in 0..Len(LoadKeys) : SaveFails(n)
    \/ \E k \in 1..MaxK : \E i \in 1..Len(LoadKeys) : ForeignFile(k, LoadKeys[i])
    \/ outcome # "writing" /\ \E k \in 1..MaxK : Construct(k)
    \/ outcome # "writing" /\ ClusterHeadlines(StoreBatches)
    \/ outcome # "writing" /\ LoadModel

StorageSpec == Init /\ [][StorageNext]_vars

\* The calls on a GeminiSummarizer, in one process after another.
SummarizerNext ==
    \/ \E response \in Responses : ConstructSummarizer(response)
    \/ \E seed \in HashSeeds : \E response \in Responses : NewProcess(seed, response)
    \/ \E h \in PersistBatches : \E c \in 0..(MaxK - 1) : \E api \in ApiOutcomes :
           GenerateSummary(h, c, api)
    \/ \E h \in PersistBatches : \E api \in ApiOutcomes :
           GenerateExecutiveSummary(h, api)
    \/ \E h \in PersistBatches : \E api \in ApiOutcomes : AnalyzeSentiment(h, api)

SummarizerSpec == Init /\ [][SummarizerNext]_vars

\* The runs of the daily pipeline on one NewsScheduler after another.
PipelineNext ==
    \/ \E k \in 1..MaxK : \E response \in Responses : NewScheduler(k, response)
    \/ RunPipelines(StoreBatches)
    \/ DisplayExecutiveSummary

PipelineSpec == Init /\ [][PipelineNext]_vars

\* The calls of scrape_headlines, on pages of every kind.
ScraperNext ==
    \E max \in 0..MaxHeadlines : \E pages \in [1..NUM_URLS -> UrlOutcomes] :
        ScrapeHeadlines(max, pages)

ScraperSpec == Init /\ [][ScraperNext]_vars

\* ----------------------------------------------------------------- claims

Clustered == op = "cluster_headlines"
Summarized == op = "get_cluster_summaries"

\* The positions of cluster_results whose item is in group c.
GroupMembers(c) == {i \in 1..Len(cluster_results) : cluster_results[i].cluster_id = c}

\* The entries of cluster_summaries.
Groups == 1..Len(cluster_summaries)

\* C1: a cluster_headlines call on n >= n_clusters > 0 headlines returns n
\* entries; for every index i exactly one entry has embedding_index i, its
\* headline is headlines[i] and its cluster_id is in [0, n_clusters).
C1Coverage ==
    (Clustered /\ Len(headlines) >= n_clusters) =>
        /\ outcome = "returned"
        /\ Len(cluster_results) = Len(headlines)
        /\ \A i \in 1..Len(headlines) :
               /\ {j \in 1..Len(cluster_results) :
                       cluster_results[j].embedding_index = i - 1} = {i}
               /\ cluster_results[i].headline = headlines[i]
               /\ cluster_results[i].cluster_id \in 0..(n_clusters - 1)

\* C2: the array the fit of a cluster_headlines(headlines) call runs on is
\* the embeddings of that call's headlines, position by position.
C2OwnBatch == Clustered => embeddings = Some(EncodeAll(headlines))

\* C3: after cluster_headlines(headlines) and get_cluster_summaries on its
\* result every input index is a member of exactly one emitted group, and
\* the sizes of the emitted groups sum to len(headlines).
C3Partition ==
    Summarized =>
        /\ \A i \in 1..Len(headlines) :
               /\ i <= Len(cluster_results)
               /\ Cardinality({g \in Groups : i \in GroupMembers(cluster_summaries[g].cluster_id)}) = 1
        /\ SumOver([g \in Groups |-> cluster_summaries[g].size], Groups) = Len(headlines)

\* C4: get_cluster_summaries emits one entry for each group id in
\* [0, n_clusters) that has a member, none for any other id, and the entries
\* are in ascending order of group id.
C4OneEntryPerGroup ==
    Summarized =>
        /\ \A c \in 0..(n_clusters - 1) :
               (GroupMembers(c) # {}) <=> (\E g \in Groups : cluster_summaries[g].cluster_id = c)
        /\ \A g \in Groups : cluster_summaries[g].cluster_id \in 0..(n_clusters - 1)
        /\ \A g, q \in Groups :
               g < q => cluster_summaries[g].cluster_id < cluster_summaries[q].cluster_id

\* Two groups were emitted.
C4Witness == Summarized /\ Len(cluster_summaries) >= 2

\* C5: every emitted group summary has size >= 1 and size equal to the
\* length of its headlines list.
C5SizeAtLeastOne ==
    Summarized =>
        \A g \in Groups :
            /\ cluster_summaries[g].size >= 1
            /\ cluster_summaries[g].size = Len(cluster_summaries[g].headlines)

\* A group of two or more was emitted and a group without members was not.
C5Witness ==
    /\ Summarized
    /\ Len(cluster_summaries) < n_clusters
    /\ \E g \in Groups : cluster_summaries[g].size >= 2

\* C6: the representative_headline of every emitted group is the headline
\* of an item assigned to that group.
C6RepresentativeIsMember ==
    Summarized =>
        \A g \in Groups :
            /\ \E i \in GroupMembers(cluster_summaries[g].cluster_id) :
                   cluster_results[i].headline = cluster_summaries[g].representative_headline
            /\ \E p \in 1..Len(cluster_summaries[g].headlines) :
                   cluster_summaries[g].headlines[p] = cluster_summaries[g].representative_headline

\* A group of several headlines whose representative is not its first
\* member.
C6Witness ==
    /\ Summarized
    /\ \E g \in Groups :
           cluster_summaries[g].representative_headline # cluster_summaries[g].headlines[1]

\* The member of group c whose own embedding is nearest the group's
\* centroid, the one of lowest input index among equals.
NearestMember(c) ==
    LET centroid == kmeans.cluster_centers_[1][c + 1]
        d(i) == DistNum(Encode(cluster_results[i].headline), centroid)
    IN  CHOOSE i \in GroupMembers(c) :
            \A m \in GroupMembers(c) : d(i) < d(m) \/ (d(i) = d(m) /\ i <= m)

\* C7: the representative of every non-empty group is the member whose
\* embedding is at the least Euclidean distance from the group's centroid,
\* the one of lowest input index among those at the least distance.
C7NearestRepresentative ==
    Summarized =>
        \A g \in Groups :
            cluster_summaries[g].representative_headline =
                cluster_results[NearestMember(cluster_summaries[g].cluster_id)].headline

\* C8: a run on the headlines and the n_clusters of the run before it yields
\* the cluster ids, the representatives and the member lists of that run.
C8Determinism ==
    [][(/\ run_k > 0
        /\ op' = "cluster_headlines"
        /\ outcome' = "returned"
        /\ headlines' = headlines
        /\ n_clusters' = run_k)
       => /\ cluster_results' = cluster_results
          /\ ClusterSummaries(cluster_results', embeddings', kmeans', n_clusters')
                 = cluster_summaries]_vars

\* C9: cluster_headlines on fewer headlines than n_clusters raises and
\* returns no cluster results.
C9InsufficientData ==
    (Clustered /\ n_clusters > Len(headlines)) =>
        (outcome = "raised" /\ cluster_results = <<>>)

\* C10: load_model after a save_model returns True and sets kmeans,
\* embeddings, cluster_labels, model_name and n_clusters to the values saved.
C10RoundTrip ==
    (op = "load_model" /\ saved # None) =>
        (outcome = "True" /\ fields = saved[1])

\* A fitted model was loaded into an object that had clustered another batch.
C10Witness ==
    /\ op = "load_model"
    /\ outcome = "True"
    /\ cluster_labels # None
    /\ headlines # <<>>
    /\ embeddings # Some(EncodeAll(headlines))

\* The file holds a complete stream with the five keys.
ValidFile == file # None /\ LoadError(file) = ""

\* C11: load_model returns True when a valid state was read, returns False
\* exactly when there is no file, and raises when a file is there but is
\* unreadable or lacks a key.
C11LoadOutcomes ==
    op = "load_model" =>
        /\ (outcome = "True") <=> ValidFile
        /\ (outcome = "False") <=> (file = None)
        /\ (file # None /\ ~ValidFile) => outcome = "raised"

\* load_model has raised on a file that a failed save_model cut short.
C11Witness ==
    /\ op = "load_model"
    /\ outcome = "raised"
    /\ file # None
    /\ Unpickle(file[1]) = None

\* C12: a load_model call that does not return True leaves kmeans,
\* embeddings, cluster_labels, model_name and n_clusters as they were.
C12NoPartialLoad ==
    [][(op' = "load_model" /\ outcome' # "True") => UNCHANGED fields]_vars

\* C13: at every point of a save_model call the file holds the complete
\* state it held before or the complete new state.
C13AtomicSave ==
    [][op' = "save_model" =>
          \/ file' = file
          \/ file' = Some(Pickle(kmeans', embeddings', cluster_labels',
                                 model_name', n_clusters'))]_vars

\* The embeddings of the batch are pairwise distinct.
DistinctEmbeddings(h) ==
    \A i, j \in 1..Len(h) : i # j => Encode(h[i]) # Encode(h[j])

\* C17: cluster_headlines on exactly n_clusters headlines of pairwise
\* distinct embeddings puts no two items in one group.
C17SingletonGroups ==
    (/\ Clustered
     /\ outcome = "returned"
     /\ Len(headlines) = n_clusters
     /\ DistinctEmbeddings(headlines))
    => \A c \in 0..(n_clusters - 1) : Cardinality(GroupMembers(c)) <= 1

\* C19: after a cluster_headlines call has raised, the next call on the same
\* object with n >= n_clusters headlines returns and assigns every item of
\* its batch to a cluster.
C19ReinvokeAfterFailure ==
    [][(/\ Clustered
        /\ outcome = "raised"
        /\ op' = "cluster_headlines"
        /\ n_clusters' = n_clusters
        /\ Len(headlines') >= n_clusters')
       => /\ outcome' = "returned"
          /\ Len(cluster_results') = Len(headlines')
          /\ \A i \in 1..Len(headlines') :
                 /\ cluster_results'[i].embedding_index = i - 1
                 /\ cluster_results'[i].cluster_id \in 0..(n_clusters' - 1)]_vars

\* The summary is the fallback one, not a text of the API.
IsFallback(ret) == ret.summary[1] = "This cluster focuses on"

\* C16: with use_mock set, a generate_summary call on the cluster_headlines
\* and the cluster_id of the generate_summary call before it, in the same
\* process or in another, returns the same summary text, cluster_id and
\* headlines_count.
C16DeterministicFallback ==
    [][(/\ op' = "generate_summary"
        /\ use_mock'
        /\ result # None
        /\ result[1].method = "generate_summary"
        /\ IsFallback(result[1].ret)
        /\ result'[1].ret.headlines = result[1].ret.headlines
        /\ result'[1].ret.cluster_id = result[1].ret.cluster_id)
       => /\ result'[1].ret.summary = result[1].ret.summary
          /\ result'[1].ret.headlines_count = result[1].ret.headlines_count]_vars

\* C20: no generate_summary, generate_executive_summary or
\* analyze_sentiment call changes use_mock: the value the health check left
\* is the one every later call uses.
C20VariantFixedAtStartup ==
    [][op' \in {"generate_summary", "generate_executive_summary", "analyze_sentiment"}
          => use_mock' = use_mock]_vars

\* The run ended with everything saved.
RunSucceeded ==
    op = "run_daily_pipeline" /\ log = <<"Daily pipeline completed successfully!">>

\* The run clustered and summarized, and then a save raised.
RunSaveFailed ==
    /\ op = "run_daily_pipeline"
    /\ Len(log) = 3
    /\ summaries # <<>>

\* C14: when a save fails at the end of a run_daily_pipeline whose
\* clustering and summarization succeeded, the caller receives the results
\* of the run with the indication that they were not saved: a value, not
\* the None of the other runs.
C14PartialSuccess == RunSaveFailed => outcome # "None"

\* C15: a run_daily_pipeline that takes a failure path (nothing scraped,
\* clustering raised, no summaries, a save raised) returns a value that is
\* not the value of the successful run before it and not None.
C15FailureDistinguishable ==
    [][(/\ RunSucceeded
        /\ op' = "run_daily_pipeline"
        /\ log' # <<"Daily pipeline completed successfully!">>)
       => (outcome' # outcome /\ outcome' # "None")]_vars

\* C18: a run of the clustering core goes through vectorizing,
\* partitioning, selecting and summarizing in that order, each at most once,
\* and a successful run skips none of them, the first run on an object and
\* the later ones alike.
C18RunPhases ==
    op = "run_daily_pipeline" =>
        /\ \E n \in 0..4 :
               phases = SubSeq(<<"Vectorizing", "Partitioning", "Selecting",
                                 "Summarizing">>, 1, n)
        /\ RunSucceeded => Len(phases) = 4

\* The p-th member of group c in ascending order of input index.
NthMember(c, p) ==
    CHOOSE i \in GroupMembers(c) :
        Cardinality({m \in GroupMembers(c) : m < i}) = p - 1

\* C21: the headlines list of every emitted group holds the texts of the
\* group's members in ascending order of embedding_index.
C21MemberOrder ==
    Summarized =>
        \A g \in Groups :
            LET c == cluster_summaries[g].cluster_id
                hs == cluster_summaries[g].headlines
            IN  /\ Len(hs) = Cardinality(GroupMembers(c))
                /\ \A p \in 1..Len(hs) :
                       /\ cluster_results[NthMember(c, p)].embedding_index
                              = NthMember(c, p) - 1
                       /\ hs[p] = cluster_results[NthMember(c, p)].headline

\* A group whose first and last member have different texts.
C21Witness ==
    /\ Summarized
    /\ \E g \in Groups :
           cluster_summaries[g].headlines[1]
               # cluster_summaries[g].headlines[Len(cluster_summaries[g].headlines)]

\* The methods of GeminiSummarizer that call the API.
SummarizerMethods ==
    {"generate_summary", "generate_executive_summary", "analyze_sentiment"}

\* C22: no call of generate_summary, generate_executive_summary or
\* analyze_sentiment sets use_mock from True back to False; every call
\* returns a result and raises nothing, after at most one API call and at
\* most one call of the method on itself.
C22FallbackLatch ==
    [][op' \in SummarizerMethods =>
          /\ use_mock => use_mock'
          /\ outcome' = "returned"
          /\ result' # None
          /\ result'[1].api_calls <= 1
          /\ result'[1].reentries <= 1]_vars

\* A call whose API call failed: it fell back to the mock and returned.
C22Witness ==
    /\ op \in SummarizerMethods
    /\ use_mock
    /\ result # None
    /\ result[1].api_calls = 1
    /\ result[1].reentries = 1

\* The files of Step 5 in the order the claim gives.
SaveOrder == <<"headlines", "summaries", "model", "executive_summary">>

\* C23: a run_daily_pipeline in which nothing was scraped, clustering
\* raised or no summaries were generated writes none of the four files, and
\* the files a run writes are written in the order headlines, summaries,
\* model, executive summary.
C23PersistAfterAnalysis ==
    op = "run_daily_pipeline" =>
        /\ (\/ log = <<"No headlines scraped. Pipeline stopped.">>
            \/ log = <<"Error in daily pipeline", "ValueError">>
            \/ log = <<"No summaries generated. Pipeline failed.">>)
           => written = <<>>
        /\ \E n \in 0..Len(SaveOrder) : written = SubSeq(SaveOrder, 1, n)

\* A successful run has written the four files.
C23Witness == RunSucceeded /\ Len(written) = Len(SaveOrder)

\* C25: display_executive_summary on the file a successful
\* run_daily_pipeline wrote does not raise and shows the executive summary
\* the run wrote.
C25ExecutiveHandOff ==
    (op = "display_executive_summary" /\ executive_file # None) =>
        /\ outcome = "returned"
        /\ shown = <<"Latest Executive Summary", executive_file[1].value>>

\* C24: scrape_headlines(max_headlines) returns at most max_headlines
\* items, whatever the pages yield, whichever requests fail and whether or
\* not sample headlines are appended.
C24AtMostMax ==
    op = "scrape_headlines" => Len(scraped) <= max_headlines

\* Sample headlines were appended to scraped ones up to max_headlines.
C24Witness ==
    /\ op = "scrape_headlines"
    /\ Len(scraped) = max_headlines
    /\ \E i, j \in 1..Len(scraped) :
           /\ scraped[i].source = "Google News"
           /\ scraped[j].source = "Sample Financial News"

====
